---- MODULE Spec2Model ----
(***************************************************************************)
(* Verification model of the ruvoplayer backend relay (the Express local   *)
(* server and the serverless stream-proxy handler), its image proxy, and   *)
(* the front-end image cache service.                                      *)
(*                                                                         *)
(* Strings the code inspects character by character (URLs, data URLs) are  *)
(* sequences of one-character strings; header values the code only copies  *)
(* are TLA+ strings, "" standing for an absent (undefined) header.         *)
(***************************************************************************)
EXTENDS Integers, Sequences, FiniteSets, TLC

VARIABLES
  \* ---- stream relay: one inbound request ----
  impl,        \* "server" (Express handleStreamProxy) or "serverless" (handler)
  isHead,      \* inbound method is HEAD
  streamUrl,   \* req.query.streamUrl, <<>> when missing
  pc,          \* "start", "waiting" (outbound request open), "done", "crashed"
  request,     \* the outbound http.ClientRequest
  upstream,    \* the upstream http.IncomingMessage
  res,         \* the inbound response object
  pending,     \* events queued by request.destroy(): subset of {"reqError","resError"}
  log,         \* handler invocations so far: <<[ev, arg, sent]>>
  \* ---- image proxy: one inbound request ----
  imgMethod,   \* req.method
  imgUrl,      \* req.query.url, <<>> when missing
  imgPc,       \* "start", "fetching", "reading", "done"
  imgFetch,    \* what fetch() produced
  imgRes,      \* the inbound response object
  \* ---- image cache service ----
  cache,       \* the Map url -> CachedImage, as the sequence of its values in insertion order
  cacheConfig, \* maxSize, maxImages, ttl
  stats,       \* hitCount, missCount, totalRequests
  loads,       \* in-flight fetchImageAsDataUrl calls per url
  storage,     \* localStorage: 'image-cache' and 'image-cache-config'
  now,         \* Date.now()
  issued,      \* getImage calls made so far
  evicted,     \* the entries the last operation evicted, each with the cache it was chosen from
  lastOp,      \* the last operation of the service and, for getImage, what it answered
  completed,   \* per url, the data URL its last successful load stored and when, until
               \* clearCache, removeFromCache, an eviction or its expiry removes it
  persistFailed, \* the last persistCache was cut short by setItem throwing
  \* ---- image cache service: one preloadImages(urls) subscription at a time ----
  preUrls,     \* the urls passed
  preOutcome,  \* per position: "hit", "pending", "loaded" or "failed"
  preResults,  \* what toArray has collected: <<[url, success]>>
  preEmitted,  \* the arrays the subscriber has received
  preState,    \* "idle", "running", "complete" or "error"
  \* ---- adaptive quality service: one stream URL and its Hls instance ----
  hls,         \* the Hls instance: levels (bitrates), currentLevel, manualLevel
  qualityState,       \* qualityStates.get(streamUrl), NoQualityState when absent
  monitoringInterval, \* monitoringIntervals.get(streamUrl): a timer id, 0 when absent
  timers,      \* the interval subscriptions not unsubscribed: [id, isVod, due]
  inits,       \* initializeAdaptiveQuality calls made so far
  lastQ,       \* the last step of the service and what it found
  \* ---- adaptive quality service: the buffer health of the stream ----
  media,       \* hls.media: attached or not, its buffered ranges, currentTime
  bufferHealth, \* qualityState.bufferHealth, a fraction [num, den]
  \* ---- seamless seeking service and buffer manager: one player URL ----
  players,     \* is the player registered: [seeking, buffer], one per service
  bufferState, \* bufferState.value.bufferHealth of the buffer manager
  seek,        \* the executeSeamlessSeek call: its type, its timers and subscriptions
  observer,    \* the caller's subscriber: results delivered, completed or not
  seekResults  \* the number of entries of the seek-results history

relayVars == <<impl, isHead, streamUrl, pc, request, upstream, res, pending, log>>
imageVars == <<imgMethod, imgUrl, imgPc, imgFetch, imgRes>>
cacheVars ==
  <<cache, cacheConfig, stats, loads, storage, now, issued, evicted, lastOp, completed,
    persistFailed>>
preloadVars == <<preUrls, preOutcome, preResults, preEmitted, preState>>
qualityVars == <<hls, qualityState, monitoringInterval, timers, inits, lastQ>>
healthVars == <<media, bufferHealth>>
seekVars == <<players, bufferState, seek, observer, seekResults>>
nonRelayVars == <<imageVars, cacheVars, preloadVars, qualityVars, healthVars, seekVars>>
nonImageVars == <<relayVars, cacheVars, preloadVars, qualityVars, healthVars, seekVars>>
nonCacheVars == <<relayVars, imageVars, preloadVars, qualityVars, healthVars, seekVars>>
nonPreloadVars == <<relayVars, imageVars, qualityVars, healthVars, seekVars>>
nonQualityVars == <<relayVars, imageVars, cacheVars, preloadVars, healthVars, seekVars>>
nonHealthVars == <<relayVars, imageVars, cacheVars, preloadVars, qualityVars, seekVars>>
nonSeekVars == <<relayVars, imageVars, cacheVars, preloadVars, qualityVars, healthVars>>
vars ==
  <<relayVars, imageVars, cacheVars, preloadVars, qualityVars, healthVars, seekVars>>

(***************************************************************************)
(* String helpers                                                          *)
(***************************************************************************)

\* String.prototype.includes
Includes(s, sub) ==
  \E i \in 0..(Len(s) - Len(sub)) : SubSeq(s, i + 1, i + Len(sub)) = sub

\* String concatenation of a sequence of strings
RECURSIVE Concat(_)
Concat(ss) == IF ss = <<>> THEN <<>> ELSE Head(ss) \o Concat(Tail(ss))

Letters == {"a", "b", "c", "h", "j", "k", "p", "t", "s", "m", "v", "l", "x", "u"}

\* new URL(s) succeeds: s starts with a scheme (letters followed by ":")
ParsesAsUrl(s) ==
  \E i \in 2..Len(s) : s[i] = ":" /\ \A j \in 1..(i - 1) : s[j] \in Letters

\* The escape encodeURIComponent emits for a reserved character
PercentEscape(ch) ==
  CASE ch = ":" -> <<"%", "3", "A">>
    [] ch = "/" -> <<"%", "2", "F">>
    [] ch = "?" -> <<"%", "3", "F">>
    [] ch = "=" -> <<"%", "3", "D">>
    [] ch = "&" -> <<"%", "2", "6">>
    [] ch = "%" -> <<"%", "2", "5">>
    [] OTHER -> <<ch>>

\* encodeURIComponent left out: the string is used as it is
EncodeNothing(s) == s

\* encodeURIComponent: letters, digits and - _ . ! ~ * ' ( ) are kept
EncodeURIComponent(s) == Concat([i \in 1..Len(s) |-> PercentEscape(s[i])])

(***************************************************************************)
(* Stream relay: inputs                                                    *)
(***************************************************************************)

UrlTs   == <<"h","t","t","p",":","/","/","h","/","a",".","t","s">>
UrlMkv  == <<"h","t","t","p",":","/","/","h","/","a",".","m","k","v">>
UrlTsx  == <<"h","t","t","p",":","/","/","h","/","x",".","t","s","x">>
UrlHtml == <<"h","t","t","p",":","/","/","h","/","a",".","h","t","m","l">>
UrlRel  == <<"a",".","t","s">>
NoUrl   == <<>>

StreamUrls == {NoUrl, UrlTs, UrlMkv, UrlTsx, UrlHtml, UrlRel}

LocAbs == <<"h","t","t","p",":","/","/","c","/","b",".","t","s","?","k","=","v","&","j","=","u">>
LocRel == <<"/","b",".","t","s">>
NoLocation == <<>>

Locations == {NoLocation, LocAbs, LocRel}

StatusCodes == {200, 206, 301, 302, 304, 404, 503}
ContentTypes == {"", "video/mp4", "video/x-matroska"}
ContentLengths == {"", "2"}
ContentRanges == {"", "bytes 0-1/2"}
ErrorReasons == {"connect ECONNREFUSED", "read ECONNRESET"}

MaxBody == 2
Bodies == UNION {[1..n -> {"x", "y"}] : n \in 0..MaxBody}

StreamExtensions ==
  { <<".","m","3","u","8">>, <<".","t","s">>, <<".","m","p","4">>,
    <<".","m","k","v">>, <<".","a","v","i">>, <<".","m","o","v">> }

RedirectPrefix ==
  <<"/","a","p","i","/","s","t","r","e","a","m","-","p","r","o","x","y",
    "?","s","t","r","e","a","m","U","r","l","=">>

(***************************************************************************)
(* Stream relay: the response object and the handlers' effect on it        *)
(***************************************************************************)

NoMessage == [text |-> "", code |-> 0, reason |-> ""]

Res0 ==
  [ headersSent |-> FALSE, statusCode |-> 200, kind |-> "none",
    message |-> NoMessage, location |-> <<>>,
    contentType |-> "", contentLength |-> "", contentRange |-> "",
    acceptRanges |-> "", body |-> <<>>, piping |-> FALSE, ended |-> FALSE,
    writes |-> 0 ]

\* res.status(code).json({status: 'error', message})
Json(r, code, msg) ==
  [r EXCEPT !.headersSent = TRUE, !.statusCode = code, !.kind = "json",
            !.message = msg, !.contentType = "application/json",
            !.ended = TRUE, !.writes = @ + 1]

\* res.redirect(target): the status is the framework's default (302 Found)
Redirect(r, target) ==
  [r EXCEPT !.headersSent = TRUE, !.statusCode = 302,
            !.kind = "redirect", !.location = target,
            !.ended = TRUE, !.writes = @ + 1]

\* The validation at the head of the handler: the error message, "" when it passes
ValidationError(which, url) ==
  IF url = <<>> THEN "Missing streamUrl parameter"
  ELSE IF which = "server" /\ \A e \in StreamExtensions : ~Includes(url, e)
       THEN "Invalid stream URL format"
       ELSE ""

\* a 3xx answer that carries a Location header
IsRedirect(up) ==
  up.statusCode >= 300 /\ up.statusCode < 400 /\ up.location # <<>>

\* a || b on strings
OrElse(a, b) == IF a = "" THEN b ELSE a

\* The server evaluates url.includes('.mkv') on the URL object built from
\* streamUrl, which has no includes method: a TypeError thrown inside the
\* response callback, outside the handler's try block.
ResponseCallbackThrows(which, up) ==
  which = "server" /\ ~IsRedirect(up) /\ up.statusCode \in {200, 206}

\* a 3xx answer, with or without a Location header
Is3xx(up) == up.statusCode >= 300 /\ up.statusCode < 400

\* the response callback on 200/206: the headers are copied, the status is set,
\* and the response is ended (HEAD) or the upstream is piped into it (GET).
\* Only the serverless handler gets here: see ResponseCallbackThrows.
StartStream(head, r, up) ==
  LET hdr == [r EXCEPT !.contentType = OrElse(up.contentType, "application/octet-stream"),
                       !.contentLength = up.contentLength,
                       !.acceptRanges = OrElse(up.acceptRanges, "bytes"),
                       !.contentRange = up.contentRange,
                       !.statusCode = up.statusCode,
                       !.kind = "stream"]
  IN IF head
     THEN [hdr EXCEPT !.headersSent = TRUE, !.ended = TRUE, !.writes = @ + 1]
     ELSE [hdr EXCEPT !.piping = TRUE]

\* the JSON error for an upstream status that is not streamed
StatusError(r, up) ==
  Json(r, up.statusCode,
       [text |-> "Stream server responded with status ",
        code |-> up.statusCode, reason |-> ""])

\* the response callback with the redirect test on the status alone
OnResponseAny3xx(which, head, r, up) ==
  IF Is3xx(up)
  THEN Redirect(r, RedirectPrefix \o EncodeURIComponent(up.location))
  ELSE IF up.statusCode # 200 /\ up.statusCode # 206
  THEN StatusError(r, up)
  ELSE StartStream(head, r, up)

\* The response callback of the outbound request
OnResponse(which, head, r, up) ==
  IF IsRedirect(up)
  THEN Redirect(r, RedirectPrefix \o EncodeURIComponent(up.location))
  ELSE IF up.statusCode # 200 /\ up.statusCode # 206
  THEN StatusError(r, up)
  ELSE StartStream(head, r, up)

\* request.on('error') without the headersSent test
OnRequestErrorUnguarded(r, reason) ==
  Json(r, 500, [text |-> "Failed to connect to stream: ", code |-> 0, reason |-> reason])

\* request.on('error') with the error's message dropped
OnRequestErrorNoReason(r, reason) ==
  IF ~r.headersSent
  THEN Json(r, 500, [text |-> "Failed to connect to stream: ", code |-> 0, reason |-> ""])
  ELSE r

\* request.on('error')
OnRequestError(r, reason) ==
  IF ~r.headersSent
  THEN Json(r, 500, [text |-> "Failed to connect to stream: ", code |-> 0, reason |-> reason])
  ELSE r

\* request.on('timeout') without the headersSent test
OnTimeoutUnguarded(r) ==
  Json(r, 408, [text |-> "Stream request timeout", code |-> 0, reason |-> ""])

\* request.on('timeout'): the response part; the handler also destroys the request
OnTimeout(r) ==
  IF ~r.headersSent
  THEN Json(r, 408, [text |-> "Stream request timeout", code |-> 0, reason |-> ""])
  ELSE r

\* upstream.on('error'), registered on the piping path only
OnResponseError(which, r) ==
  IF ~r.headersSent
  THEN Json(r, 500, [text |-> IF which = "server" THEN "Stream error occurred"
                              ELSE "Upstream stream error",
                     code |-> 0, reason |-> ""])
  ELSE r

\* the handler's catch block
OnCatch(r, msg) ==
  IF ~r.headersSent
  THEN Json(r, 500, [text |-> OrElse(msg, "Internal server error"), code |-> 0, reason |-> ""])
  ELSE r

(***************************************************************************)
(* Stream relay: the outbound request and the upstream response            *)
(***************************************************************************)

Request0 == [count |-> 0, open |-> FALSE, destroyed |-> FALSE, hadError |-> FALSE]

Upstream0 ==
  [ received |-> FALSE, statusCode |-> 0, location |-> <<>>, contentType |-> "",
    contentLength |-> "", contentRange |-> "", acceptRanges |-> "",
    body |-> <<>>, sent |-> <<>>, complete |-> FALSE, aborted |-> FALSE ]

RelayIdle ==
  /\ impl = "server" /\ isHead = FALSE /\ streamUrl = <<>> /\ pc = "idle"
  /\ request = Request0 /\ upstream = Upstream0 /\ res = Res0
  /\ pending = {} /\ log = <<>>

(***************************************************************************)
(* Image proxy: inputs, the response object and the handler's effect on it *)
(***************************************************************************)

ImgUrlPng == <<"h","t","t","p",":","/","/","h","/","a",".","p","n","g">>
ImgUrlRel == <<"a",".","p","n","g">>

ImageUrls == {NoUrl, ImgUrlPng, ImgUrlRel}
ImageStatuses == {200, 204, 304, 403, 404, 500}
ImageTypes == {"", "image/png"}
FetchErrors == {"", "fetch failed"}

ImgRes0 ==
  [ statusCode |-> 200, kind |-> "none", message |-> NoMessage,
    contentType |-> "", cacheControl |-> "", body |-> <<>>, writes |-> 0 ]

ImgFetch0 ==
  [ state |-> "none", status |-> 0, contentType |-> "", body |-> <<>>, error |-> "" ]

\* res.status(code).json({status: 'error', message})
ImgJson(r, code, msg) ==
  [r EXCEPT !.statusCode = code, !.kind = "json", !.message = msg,
            !.contentType = "application/json", !.writes = @ + 1]

\* Response.ok
Ok(status) == status >= 200 /\ status <= 299

\* the non-2xx answer with the status fixed at 500
ImgOnNotOkAs500(r, status) ==
  ImgJson(r, 500, [text |-> "Upstream responded ", code |-> status, reason |-> ""])

\* the handler once fetch() has resolved with a non-2xx status
ImgOnNotOk(r, status) ==
  ImgJson(r, status, [text |-> "Upstream responded ", code |-> status, reason |-> ""])

\* the handler's catch block
ImgOnCatch(r, msg) ==
  ImgJson(r, 500, [text |-> OrElse(msg, "Internal server error"), code |-> 0, reason |-> ""])

\* the handler once the body has been read
ImgOnBody(r, f) ==
  [r EXCEPT !.statusCode = 200, !.kind = "image",
            !.contentType = OrElse(f.contentType, "image/jpeg"),
            !.cacheControl = "public, max-age=86400",
            !.body = f.body, !.writes = @ + 1]

ImageIdle ==
  /\ imgMethod = "GET" /\ imgUrl = <<>> /\ imgPc = "idle"
  /\ imgFetch = ImgFetch0 /\ imgRes = ImgRes0

(***************************************************************************)
(* Adaptive quality service: inputs, the Hls instance, the decisions       *)
(*                                                                         *)
(* Buffer health and network stability are percentages (0.7 is 70); times  *)
(* are seconds (5000 ms is 5). Instead of lastQualityChange the state      *)
(* keeps sinceChange, the value of Date.now() - lastQualityChange, which   *)
(* stops growing at MaxElapsed, beyond every delay it is compared with.    *)
(* bufferHealth and networkStability, which every monitoring step writes   *)
(* before it reads them, are values of the step; targetQuality and         *)
(* qualityHistory, which nothing reads, are left out.                      *)
(***************************************************************************)

MaxLevels == 3
MaxInits == 2

\* getAdaptiveQualityConfig(isVod): the same for VOD and live but for the
\* upgrade interval
QualitySwitchThreshold == 70
QualityDowngradeThreshold == 30
BandwidthTestInterval == 10
QualityUpgradeDelay == 5
VodQualityUpgradeInterval == 15
StartWithLowQuality == TRUE

\* the step in which the model lets time pass
ClockStep == QualityUpgradeDelay

\* where sinceChange stops growing: above both upgrade delays
MaxElapsed == VodQualityUpgradeInterval + ClockStep

\* hls.levels once the manifest is parsed: the bitrates, lowest first, equal
\* ones allowed; level i of the code is levels[i + 1]. The code only
\* compares bitrates, so the lists are those that use the bitrates 1, 2, ...
\* without a gap.
LevelLists ==
  {l \in UNION {[1..n -> 1..MaxLevels] : n \in 1..MaxLevels} :
     /\ l[1] = 1
     /\ \A i \in 1..(Len(l) - 1) : l[i + 1] - l[i] \in {0, 1}}

Bitrate(levels, i) == levels[i + 1]

\* what calculateBufferHealth returns: a value below the downgrade
\* threshold, one above the upgrade threshold, and the two thresholds, with
\* which every value in between (its answer when it throws, 50, is one)
\* is treated alike
Healths ==
  {QualityDowngradeThreshold - 10, QualityDowngradeThreshold,
   QualitySwitchThreshold, QualitySwitchThreshold + 10}

Hls0 == [levels |-> <<>>, currentLevel |-> -1, manualLevel |-> -1]

\* hls.currentLevel = level: an immediate switch to a manual level
SetCurrentLevel(h, level) == [h EXCEPT !.currentLevel = level, !.manualLevel = level]

\* hls.nextLevel = level: a manual level that the next fragment switches to
SetNextLevel(h, level) == [h EXCEPT !.manualLevel = level]

NoQualityState == [currentQuality |-> -2, sinceChange |-> 0]

\* the state initializeAdaptiveQuality creates
QualityState0 == [currentQuality |-> -1, sinceChange |-> 0]

\* startWithLowerQuality
StartWithLowerQuality(h) ==
  IF Len(h.levels) = 0 THEN h
  ELSE SetNextLevel(SetCurrentLevel(h, Len(h.levels) \div 4),
                    (Len(h.levels) * 3) \div 4)

\* calculateNetworkStability
CalculateNetworkStability == 80

\* shouldUpgradeQuality
MinDelay(isVod) == IF isVod THEN VodQualityUpgradeInterval ELSE QualityUpgradeDelay

ShouldUpgradeQuality(health, networkStability, st, isVod) ==
  /\ health > QualitySwitchThreshold
  /\ networkStability > 70
  /\ st.sinceChange > MinDelay(isVod)

\* shouldDowngradeQuality
ShouldDowngradeQuality(health) == health < QualityDowngradeThreshold

\* the loop of upgradeQuality: the first level after the current one with a
\* higher bitrate, the current one if there is none
HighestLevel(levels, currentLevel) ==
  LET higher == {i \in (currentLevel + 1)..(Len(levels) - 1) :
                   Bitrate(levels, i) > Bitrate(levels, currentLevel)}
  IN IF higher = {} THEN currentLevel
     ELSE CHOOSE i \in higher : \A j \in higher : j <= i

NextHigherLevel(levels, currentLevel) ==
  LET higher == {i \in (currentLevel + 1)..(Len(levels) - 1) :
                   Bitrate(levels, i) > Bitrate(levels, currentLevel)}
  IN IF higher = {} THEN currentLevel
     ELSE CHOOSE i \in higher : \A j \in higher : i <= j

\* the loop of downgradeQuality: the first level before the current one,
\* going down, with a lower bitrate, the current one if there is none
AdjacentLowerLevel(levels, currentLevel) ==
  IF currentLevel > 0 /\ Bitrate(levels, currentLevel - 1) < Bitrate(levels, currentLevel)
  THEN currentLevel - 1 ELSE currentLevel

NextLowerLevel(levels, currentLevel) ==
  LET lower == {i \in 0..(currentLevel - 1) :
                  Bitrate(levels, i) < Bitrate(levels, currentLevel)}
  IN IF lower = {} THEN currentLevel
     ELSE CHOOSE i \in lower : \A j \in lower : j <= i

\* upgradeQuality / downgradeQuality, to the level the loop settled on
ChangeQualityStateOnly(h, st, level) ==
  IF level # h.currentLevel
  THEN [hls |-> h,
        state |-> [st EXCEPT !.currentQuality = level, !.sinceChange = 0]]
  ELSE [hls |-> h, state |-> st]

ChangeQuality(h, st, level) ==
  IF level # h.currentLevel
  THEN [hls |-> SetCurrentLevel(h, level),
        state |-> [st EXCEPT !.currentQuality = level, !.sinceChange = 0]]
  ELSE [hls |-> h, state |-> st]

UpgradeQuality(h, st) ==
  IF h.currentLevel = -1 THEN [hls |-> h, state |-> st]
  ELSE ChangeQuality(h, st, NextHigherLevel(h.levels, h.currentLevel))

DowngradeQuality(h, st) ==
  IF h.currentLevel = -1 THEN [hls |-> h, state |-> st]
  ELSE ChangeQuality(h, st, NextLowerLevel(h.levels, h.currentLevel))

\* assessQualityAndAdjust, calculateBufferHealth having returned health
AssessQualityAndAdjust(h, st, isVod, health) ==
  IF st = NoQualityState THEN [hls |-> h, state |-> st]
  ELSE IF ShouldUpgradeQuality(health, CalculateNetworkStability, st, isVod)
       THEN UpgradeQuality(h, st)
  ELSE IF ShouldDowngradeQuality(health) THEN DowngradeQuality(h, st)
  ELSE [hls |-> h, state |-> st]

\* the last step of the service when it was a monitoring step: whether the
\* stream had a quality state, the buffer health measured, the level and the
\* time since the last change as the step found them
NoQOp ==
  [name |-> "none", initialised |-> FALSE, isVod |-> FALSE, health |-> 0,
   levelBefore |-> -1, sinceBefore |-> 0]

QualityIdle ==
  /\ hls = Hls0 /\ qualityState = NoQualityState /\ monitoringInterval = 0
  /\ timers = {} /\ inits = 0 /\ lastQ = NoQOp

(***************************************************************************)
(* Adaptive quality service: the buffer health score                       *)
(*                                                                         *)
(* Times are whole seconds. The score is a fraction, kept in lowest terms  *)
(* as [num, den] with den > 0, so that 0.1 is [1, 10] and the score of a   *)
(* position midway in a span of 3 s is [1, 3] or [2, 3].                   *)
(***************************************************************************)

MaxPos == 3

Positions == 0..MaxPos

\* media.buffered, a TimeRanges object: ranges <<start, end>> with
\* start < end, in ascending order, apart from each other
TimeRanges ==
  {b \in UNION {[1..n -> Positions \X Positions] : n \in 0..2} :
     /\ \A i \in 1..Len(b) : b[i][1] < b[i][2]
     /\ \A i \in 1..(Len(b) - 1) : b[i][2] < b[i + 1][1]}

\* hls.media: null until a video element is attached
NoMedia == [attached |-> FALSE, buffered |-> <<>>, currentTime |-> 0]

Medias ==
  {NoMedia} \cup
  [attached : {TRUE}, buffered : TimeRanges, currentTime : Positions]

Abs(n) == IF n < 0 THEN 0 - n ELSE n

RECURSIVE Gcd(_, _)
Gcd(a, b) == IF b = 0 THEN a ELSE Gcd(b, a % b)

\* the fraction n / d, d > 0, in lowest terms
Fraction(n, d) ==
  LET g == Gcd(Abs(n), d) IN [num |-> n \div g, den |-> d \div g]

LessThan(x, y) == x.num * y.den < y.num * x.den

Minus(x, y) == Fraction(x.num * y.den - y.num * x.den, x.den * y.den)

Zero == Fraction(0, 1)
One == Fraction(1, 1)
Half == Fraction(1, 2)
Tenth == Fraction(1, 10)

\* Math.min, Math.max
MathMin(x, y) == IF LessThan(y, x) THEN y ELSE x
MathMax(x, y) == IF LessThan(x, y) THEN y ELSE x

\* calculateBufferHealth
CalculateBufferHealth(m) ==
  IF ~m.attached THEN Half
  ELSE IF Len(m.buffered) = 0 THEN Zero
  ELSE LET bufferedEnd == m.buffered[Len(m.buffered)][2]
           bufferedStart == m.buffered[1][1]
           bufferLength == bufferedEnd - m.currentTime
           totalBuffer == bufferedEnd - bufferedStart
       IN IF bufferedEnd <= bufferedStart THEN Zero
          ELSE MathMin(Fraction(bufferLength, totalBuffer), One)

HealthIdle == media = NoMedia /\ bufferHealth = One

(***************************************************************************)
(* Seamless seeking service: one executeSeamlessSeek call and its callbacks *)
(*                                                                         *)
(* A promise's then callback runs as a microtask right after the callback  *)
(* that resolved the promise, so bufferManager.executeSeamlessSeek(...)    *)
(* .then(...) is one step with the callback that calls it. The subscriber  *)
(* of an Observable ignores next once complete was called.                 *)
(***************************************************************************)

MaxSubscriptions == 2
MaxResults == 3

SeekTypes == {"instant", "smooth", "precise"}

\* BufferState['bufferHealth']
BufferHealths == {"poor", "fair", "good", "excellent"}

\* no call yet
Seek0 ==
  [type |-> "none", found |-> FALSE, interval |-> FALSE, subscriptions |-> 0,
   timeout |-> FALSE, timeoutId |-> FALSE, preparing |-> FALSE]

Observer0 == [next |-> 0, complete |-> FALSE]

\* observer.next(result); observer.complete()
NextAndComplete(ob) ==
  IF ob.complete THEN ob ELSE [next |-> ob.next + 1, complete |-> TRUE]

\* this.seekResults.next([...this.seekResults.value, result]), n times
Appended(results, n) ==
  IF results + n > MaxResults THEN MaxResults ELSE results + n

\* the end of executeInstantSeek and of the two then callbacks, run n times
EmitResult(st, n) ==
  [st EXCEPT !.observer = IF n > 0 THEN NextAndComplete(@) ELSE @,
             !.seekResults = Appended(@, n)]

\* executeInstantSeek
ExecuteInstantSeek(pl, st) ==
  IF ~pl.seeking THEN st ELSE EmitResult(st, 1)

\* executeSmoothSeek: prepareSeekBuffer answers false at once when the buffer
\* manager does not know the player, and otherwise true when its timer ends
ExecuteSmoothSeek(pl, st) ==
  IF ~pl.buffer THEN ExecuteInstantSeek(pl, st)
  ELSE [st EXCEPT !.seek.preparing = TRUE]

\* executePreciseSeek
ExecutePreciseSeek(pl, st) ==
  [st EXCEPT !.seek.interval = TRUE, !.seek.timeout = TRUE,
             !.seek.timeoutId = TRUE]

\* executePreciseSeek: what n subscriptions of the buffer state do with a state
OnBufferState(st, health, n) ==
  IF health \in {"excellent", "good"} /\ n > 0
  THEN EmitResult([st EXCEPT !.seek.interval = FALSE], n)
  ELSE st

SeekIdle ==
  /\ players = [seeking |-> FALSE, buffer |-> FALSE]
  /\ bufferState = "poor"
  /\ seek = Seek0 /\ observer = Observer0 /\ seekResults = 0

(***************************************************************************)
(* Image cache service: inputs, entries, eviction                          *)
(***************************************************************************)

MaxTime == 1
MaxRequests == 2

Urls == {"a", "b"}
MaxSizes == {2, 5}
MaxImageCounts == {1, 2}
Ttls == {1, 2}
ConfigFields == {"maxSize", "maxImages", "ttl"}
Configs == [maxSize : MaxSizes, maxImages : MaxImageCounts, ttl : Ttls]

\* the fields a Partial<CacheConfig> passed to updateCacheConfig holds: all of
\* them, or one alone
GivenFields == {ConfigFields} \cup {{f} : f \in ConfigFields}

\* what canvas.toDataURL can return: a header, a comma, the base64 payload
DataUrlHeader == <<"d","a","t","a",":">>
DataUrls ==
  { DataUrlHeader \o <<",","A","A">>,
    DataUrlHeader \o <<",","A","A","A","A">> }

\* dataUrl.split(',')[1]
RECURSIVE UpToComma(_)
UpToComma(s) ==
  IF s = <<>> \/ Head(s) = "," THEN <<>> ELSE <<Head(s)>> \o UpToComma(Tail(s))

SplitSecond(s) ==
  LET first == UpToComma(s) IN
    IF Len(first) = Len(s) THEN <<>>
    ELSE UpToComma(SubSeq(s, Len(first) + 2, Len(s)))

\* Math.ceil((base64.length * 3) / 4), 0 for an empty payload
CalculateDataUrlSize(dataUrl) ==
  LET base64 == SplitSecond(dataUrl) IN
    IF base64 = <<>> THEN 0 ELSE (Len(base64) * 3 + 3) \div 4

RECURSIVE SumSizes(_)
SumSizes(c) == IF c = <<>> THEN 0 ELSE Head(c).size + SumSizes(Tail(c))

\* getCurrentCacheSize
GetCurrentCacheSize(c) == SumSizes(c)

\* Map.get / Map.has on the sequence of values
IndexOf(c, url) ==
  IF \E i \in 1..Len(c) : c[i].url = url
  THEN CHOOSE i \in 1..Len(c) : c[i].url = url
  ELSE 0

\* Map.delete
RemoveAt(c, i) == SubSeq(c, 1, i - 1) \o SubSeq(c, i + 1, Len(c))
MapDelete(c, url) == IF IndexOf(c, url) = 0 THEN c ELSE RemoveAt(c, IndexOf(c, url))

\* Map.set: an existing key keeps its place, a new key goes last
MapSet(c, e) ==
  IF IndexOf(c, e.url) = 0 THEN Append(c, e)
  ELSE [c EXCEPT ![IndexOf(c, e.url)] = e]

\* calculateLRUScore(x) < calculateLRUScore(y), the scores being
\* (now - lastAccessed) * 1 / (accessCount + 1): compared by cross
\* multiplication, the denominators being positive
ScoreLess(x, y, t) ==
  (t - x.lastAccessed) * (y.accessCount + 1) < (t - y.lastAccessed) * (x.accessCount + 1)

\* the entry the scan of ensureCacheSpace settles on: the first, in iteration
\* order, of those with the least score
LruIndex(c, t) ==
  CHOOSE i \in 1..Len(c) :
    /\ \A j \in 1..Len(c) : ~ScoreLess(c[j], c[i], t)
    /\ \A j \in 1..(i - 1) : ScoreLess(c[i], c[j], t)

\* the while loop of ensureCacheSpace
RECURSIVE EvictLoop(_, _, _, _, _, _, _)
EvictLoop(c, currentSize, currentCount, requiredSize, cfg, t, ev) ==
  IF (currentSize + requiredSize > cfg.maxSize \/ currentCount >= cfg.maxImages)
     /\ Len(c) > 0
  THEN LET i == LruIndex(c, t) IN
         EvictLoop(RemoveAt(c, i), currentSize - c[i].size, currentCount - 1,
                   requiredSize, cfg, t,
                   Append(ev, [victim |-> c[i], before |-> c, at |-> t]))
  ELSE [cache |-> c, evicted |-> ev]

\* ensureCacheSpace: the cache afterwards and the evictions made
EnsureCacheSpace(c, requiredSize, cfg, t) ==
  IF requiredSize > cfg.maxSize
  THEN [cache |-> c, evicted |-> <<>>]
  ELSE EvictLoop(c, GetCurrentCacheSize(c), Len(c), requiredSize, cfg, t, <<>>)

\* cacheImage: the cache afterwards and the evictions made
CacheImage(c, url, dataUrl, cfg, t) ==
  LET size == CalculateDataUrlSize(dataUrl)
      made == EnsureCacheSpace(c, size, cfg, t)
      entry == [url |-> url, dataUrl |-> dataUrl, timestamp |-> t, size |-> size,
                lastAccessed |-> t, accessCount |-> 1]
  IN [cache |-> MapSet(made.cache, entry), evicted |-> made.evicted]

\* JSON.stringify(cacheData), cacheData[url] = cachedImage for each entry of
\* the Map: the members of the object, key and value, in insertion order
Stringify(c) == [i \in 1..Len(c) |-> <<c[i].url, c[i]>>]

\* persistCache, both setItem calls having succeeded: what localStorage holds
Persisted(c, cfg) == [cache |-> Stringify(c), config |-> cfg]

\* the room localStorage leaves the origin, in the unit of the image sizes:
\* less than the largest maxSize, as the 5-10MB of a browser are less than the
\* default maxSize of 100MB
StorageQuota == (CHOOSE m \in MaxSizes : \A k \in MaxSizes : k <= m) - 1

\* localStorage.setItem('image-cache', ...) throws: the value does not fit
QuotaExceeded(c) == GetCurrentCacheSize(c) > StorageQuota

\* persistCache: what localStorage holds afterwards; when the first setItem
\* throws, the catch block leaves both items as they were
PersistCache(c, cfg, st) == IF QuotaExceeded(c) THEN st ELSE Persisted(c, cfg)

\* the loop of initializeCache over Object.entries(parsedCache): the entries
\* restored into the Map c, each under its key
RECURSIVE RestoreUnexpired(_, _, _, _)
RestoreUnexpired(c, members, cfg, t) ==
  IF members = <<>> THEN c
  ELSE LET key == Head(members)[1]
           cachedImage == Head(members)[2]
           kept == IF t - cachedImage.timestamp < cfg.ttl
                   THEN IF \E i \in 1..Len(c) : c[i].url = key
                        THEN c ELSE Append(c, cachedImage)
                   ELSE c
       IN RestoreUnexpired(kept, Tail(members), cfg, t)

\* the entries cleanupExpiredCache deletes
RECURSIVE ExpiredUrls(_, _, _)
ExpiredUrls(c, cfg, t) ==
  IF c = <<>> THEN <<>>
  ELSE (IF t - Head(c).timestamp > cfg.ttl THEN <<Head(c).url>> ELSE <<>>)
       \o ExpiredUrls(Tail(c), cfg, t)

RECURSIVE DeleteAll(_, _)
DeleteAll(c, urls) ==
  IF urls = <<>> THEN c ELSE DeleteAll(MapDelete(c, Head(urls)), Tail(urls))

\* initializeCache on what localStorage holds: the configuration, the Map and
\* what localStorage holds afterwards
InitializeCache(st, t) ==
  LET cfg == st.config
      restored == RestoreUnexpired(<<>>, st.cache, cfg, t)
      expiredUrls == ExpiredUrls(restored, cfg, t)
      cleaned == DeleteAll(restored, expiredUrls)
  IN [config |-> cfg, cache |-> cleaned,
      storage |-> IF Len(expiredUrls) > 0
                  THEN PersistCache(cleaned, cfg, st) ELSE st,
      failed |-> Len(expiredUrls) > 0 /\ QuotaExceeded(cleaned)]

Stats0 == [hitCount |-> 0, missCount |-> 0, totalRequests |-> 0]

\* the test of getImage on the entry it found: still within its time to live
IsFreshInclusive(entry, cfg, t) == t - entry.timestamp <= cfg.ttl

IsFreshEarly(entry, cfg, t) == t - entry.timestamp < cfg.ttl - 1

IsFresh(entry, cfg, t) == t - entry.timestamp < cfg.ttl

\* an operation on url. For a getImage: found and age describe the entry it
\* found, hit and dataUrl what it answered at once, statsBefore and
\* loadsBefore the counters as the call found them. For a restart:
\* cacheBefore and ttlBefore are the Map and the ttl of the run that stopped
Op(name, url) ==
  [name |-> name, url |-> url, found |-> FALSE, age |-> 0,
   hit |-> FALSE, dataUrl |-> <<>>,
   statsBefore |-> Stats0, loadsBefore |-> [u \in Urls |-> 0],
   cacheBefore |-> <<>>, ttlBefore |-> 0]

NoOp == Op("none", "")

\* getImage(url) on the Map c: whether it answers from the cache, with what,
\* and the Map afterwards
GetImageOn(c, url, cfg, t) ==
  LET i == IndexOf(c, url) IN
    IF i # 0 /\ IsFresh(c[i], cfg, t)
    THEN [hit |-> TRUE, dataUrl |-> c[i].dataUrl,
          cache |-> [c EXCEPT ![i].lastAccessed = t, ![i].accessCount = @ + 1]]
    ELSE [hit |-> FALSE, dataUrl |-> <<>>, cache |-> MapDelete(c, url)]

\* the counters after a getImage
Counted(st, hit) ==
  IF hit THEN [st EXCEPT !.totalRequests = @ + 1, !.hitCount = @ + 1]
  ELSE [st EXCEPT !.totalRequests = @ + 1, !.missCount = @ + 1]

\* the arrays preloadImages is called with
UrlLists == UNION {[1..n -> Urls] : n \in 0..MaxRequests}

\* from(urls).pipe(mergeMap(url => this.getImage(url)...)): the getImage calls
\* made on subscription, one per url in order; a hit has emitted at once, a
\* miss waits for its load
RECURSIVE PreloadCalls(_, _, _, _, _)
PreloadCalls(urls, made, cfg, t, k) ==
  IF k > Len(urls) THEN made
  ELSE LET got == GetImageOn(made.cache, urls[k], cfg, t) IN
         PreloadCalls(urls,
                      [cache |-> got.cache,
                       stats |-> Counted(made.stats, got.hit),
                       outcome |-> Append(made.outcome,
                                          IF got.hit THEN "hit" ELSE "pending"),
                       results |-> IF got.hit
                                   THEN Append(made.results,
                                               [url |-> urls[k], success |-> TRUE])
                                   ELSE made.results],
                      cfg, t, k + 1)

\* catchError(() => of({ url, success: false })) on an inner getImage that
\* failed: what reaches toArray, and whether the error goes on to the subscriber
Rethrow(url) == [error |-> TRUE, result |-> [url |-> url, success |-> FALSE]]

CatchError(url) == [error |-> FALSE, result |-> [url |-> url, success |-> FALSE]]

\* toArray: one array once every inner Observable has completed
ToArray(outcome, results) ==
  IF \A k \in 1..Len(outcome) : outcome[k] # "pending"
  THEN [state |-> "complete", emitted |-> <<results>>]
  ELSE [state |-> "running", emitted |-> <<>>]

PreloadIdle ==
  /\ preUrls = <<>> /\ preOutcome = <<>> /\ preResults = <<>> /\ preEmitted = <<>>
  /\ preState = "idle"

\* no successful load on record
NoLoad == [dataUrl |-> <<>>, at |-> -1]

\* the urls of the entries evicted
Victims(ev) == {ev[k].victim.url : k \in 1..Len(ev)}

\* the record of successful loads without those of urls
Forget(done, urls) == [u \in Urls |-> IF u \in urls THEN NoLoad ELSE done[u]]

CacheIdle ==
  /\ cache = <<>> /\ cacheConfig = [maxSize |-> 0, maxImages |-> 0, ttl |-> 0]
  /\ stats = Stats0 /\ loads = [u \in Urls |-> 0]
  /\ storage = Persisted(<<>>, [maxSize |-> 0, maxImages |-> 0, ttl |-> 0])
  /\ now = 0 /\ issued = 0 /\ evicted = <<>> /\ lastOp = NoOp
  /\ completed = [u \in Urls |-> NoLoad]
  /\ persistFailed = FALSE
  /\ PreloadIdle
  /\ QualityIdle

(***************************************************************************)
(* Stream relay: state machine                                             *)
(***************************************************************************)

InitRelay ==
  /\ ImageIdle
  /\ CacheIdle
  /\ HealthIdle
  /\ SeekIdle
  /\ impl \in {"server", "serverless"}
  /\ isHead \in BOOLEAN
  /\ streamUrl \in StreamUrls
  /\ pc = "start"
  /\ request = Request0
  /\ upstream = Upstream0
  /\ res = Res0
  /\ pending = {}
  /\ log = <<>>

\* one more handler invocation: the event, its argument, res.headersSent on entry
Logged(ev, arg) == Append(log, [ev |-> ev, arg |-> arg, sent |-> res.headersSent])

\* handleStreamProxy / handler up to request.end()
HandleRequest ==
  /\ pc = "start"
  /\ LET err == ValidationError(impl, streamUrl) IN
       IF err # ""
       THEN /\ res' = Json(res, 400, [text |-> err, code |-> 0, reason |-> ""])
            /\ pc' = "done"
            /\ UNCHANGED request
       ELSE IF ~ParsesAsUrl(streamUrl)
       THEN /\ res' = OnCatch(res, "Invalid URL")
            /\ pc' = "done"
            /\ UNCHANGED request
       ELSE /\ request' = [request EXCEPT !.count = @ + 1, !.open = TRUE]
            /\ pc' = "waiting"
            /\ UNCHANGED res
  /\ log' = Logged("handle", "")
  /\ UNCHANGED <<impl, isHead, streamUrl, upstream, pending>>
  /\ UNCHANGED nonRelayVars

\* the upstream answers: the response callback runs
UpstreamResponse ==
  /\ pc = "waiting" /\ request.open /\ ~request.destroyed /\ ~request.hadError
  /\ ~upstream.received
  /\ \E st \in StatusCodes, loc \in Locations, ct \in ContentTypes,
        cl \in ContentLengths, cr \in ContentRanges, b \in Bodies :
       /\ (isHead \/ st \notin {200, 206}) => b = <<>>
       /\ (loc # <<>>) => (st \in 300..399 /\ ct = "" /\ cl = "" /\ cr = "")
       /\ (cr # "") => st = 206
       /\ LET up == [upstream EXCEPT !.received = TRUE, !.statusCode = st,
                                     !.location = loc, !.contentType = ct,
                                     !.contentLength = cl, !.contentRange = cr,
                                     !.body = b, !.sent = b] IN
            /\ upstream' = up
            /\ IF ResponseCallbackThrows(impl, up)
               THEN pc' = "crashed" /\ UNCHANGED res
               ELSE pc' = pc /\ res' = OnResponse(impl, isHead, res, up)
  /\ log' = Logged("response", "")
  /\ UNCHANGED <<impl, isHead, streamUrl, request, pending>>
  /\ UNCHANGED nonRelayVars

\* upstream.pipe(res): one chunk flows to the client
PipeChunk ==
  /\ pc = "waiting" /\ res.piping /\ ~res.ended
  /\ ~upstream.aborted /\ upstream.body # <<>>
  /\ res' = [res EXCEPT !.body = Append(@, Head(upstream.body)),
                        !.writes = IF res.headersSent THEN @ ELSE @ + 1,
                        !.headersSent = TRUE]
  /\ upstream' = [upstream EXCEPT !.body = Tail(@)]
  /\ UNCHANGED <<impl, isHead, streamUrl, pc, request, pending, log>>
  /\ UNCHANGED nonRelayVars

\* upstream.pipe(res): the upstream ends, and the pipe ends the response
PipeEnd ==
  /\ pc = "waiting" /\ res.piping /\ ~res.ended
  /\ ~upstream.aborted /\ upstream.body = <<>> /\ ~upstream.complete
  /\ res' = [res EXCEPT !.ended = TRUE,
                        !.writes = IF res.headersSent THEN @ ELSE @ + 1,
                        !.headersSent = TRUE]
  /\ upstream' = [upstream EXCEPT !.complete = TRUE]
  /\ request' = [request EXCEPT !.open = FALSE]
  /\ pc' = "done"
  /\ UNCHANGED <<impl, isHead, streamUrl, pending, log>>
  /\ UNCHANGED nonRelayVars

\* what request.destroy() queues: 'error' (socket hang up) on the request when
\* no response arrived, 'error' (aborted) on an incomplete response that has a
\* listener
DestroyEvents ==
  IF ~upstream.received THEN {"reqError"}
  ELSE IF ~upstream.complete /\ res.piping THEN {"resError"}
  ELSE {}

\* request.on('timeout'): the socket was idle for the timeout. The server
\* answers and then destroys the request, the serverless handler destroys and
\* then answers; the events of the destroy are emitted on a later tick, after
\* the handler has returned, so the two orders have the same effect.
RequestTimeout ==
  /\ pc = "waiting" /\ request.open /\ ~request.destroyed /\ ~request.hadError
  /\ res' = OnTimeout(res)
  /\ request' = [request EXCEPT !.destroyed = TRUE]
  /\ upstream' = [upstream EXCEPT !.aborted = TRUE]
  /\ pending' = DestroyEvents
  /\ log' = Logged("timeout", "")
  /\ UNCHANGED <<impl, isHead, streamUrl, pc>>
  /\ UNCHANGED nonRelayVars

\* request.on('error'): the connection fails
RequestError ==
  /\ pc = "waiting" /\ request.open /\ ~request.destroyed /\ ~request.hadError
  /\ \E reason \in ErrorReasons :
       /\ res' = OnRequestError(res, reason)
       /\ log' = Logged("error", reason)
  /\ request' = [request EXCEPT !.hadError = TRUE]
  /\ upstream' = [upstream EXCEPT !.aborted = TRUE]
  /\ pending' = IF upstream.received /\ ~upstream.complete /\ res.piping
                THEN {"resError"} ELSE {}
  /\ UNCHANGED <<impl, isHead, streamUrl, pc>>
  /\ UNCHANGED nonRelayVars

\* the 'error' event that request.destroy() causes reaches request.on('error')
DestroyError ==
  /\ pc = "waiting" /\ "reqError" \in pending
  /\ res' = OnRequestError(res, "socket hang up")
  /\ request' = [request EXCEPT !.hadError = TRUE]
  /\ pending' = pending \ {"reqError"}
  /\ log' = Logged("error", "socket hang up")
  /\ UNCHANGED <<impl, isHead, streamUrl, pc, upstream>>
  /\ UNCHANGED nonRelayVars

\* the aborted upstream response emits 'error'
ResponseError ==
  /\ pc = "waiting" /\ "resError" \in pending
  /\ res' = OnResponseError(impl, res)
  /\ pending' = pending \ {"resError"}
  /\ log' = Logged("responseError", "aborted")
  /\ UNCHANGED <<impl, isHead, streamUrl, pc, request, upstream>>
  /\ UNCHANGED nonRelayVars

NextRelay ==
  \/ HandleRequest
  \/ UpstreamResponse
  \/ PipeChunk
  \/ PipeEnd
  \/ RequestTimeout
  \/ RequestError
  \/ DestroyError
  \/ ResponseError

SpecRelay == InitRelay /\ [][NextRelay]_vars

\* the event loop runs a handler whenever one has an event to handle
SpecRelayFair == SpecRelay /\ WF_vars(NextRelay)

(***************************************************************************)
(* Image proxy: state machine                                              *)
(***************************************************************************)

InitImage ==
  /\ RelayIdle
  /\ CacheIdle
  /\ HealthIdle
  /\ SeekIdle
  /\ imgMethod \in {"GET", "OPTIONS"}
  /\ imgUrl \in ImageUrls
  /\ imgPc = "start"
  /\ imgFetch = ImgFetch0
  /\ imgRes = ImgRes0

\* handler up to the await of fetch()
ImageHandle ==
  /\ imgPc = "start"
  /\ IF imgMethod = "OPTIONS"
     THEN /\ imgRes' = [imgRes EXCEPT !.statusCode = 200, !.kind = "empty", !.writes = @ + 1]
          /\ imgPc' = "done"
     ELSE IF imgUrl = <<>>
     THEN /\ imgRes' = ImgJson(imgRes, 400,
                         [text |-> "Missing url parameter", code |-> 0, reason |-> ""])
          /\ imgPc' = "done"
     ELSE IF ~ParsesAsUrl(imgUrl)
     THEN /\ imgRes' = ImgOnCatch(imgRes, "Invalid URL")
          /\ imgPc' = "done"
     ELSE /\ imgPc' = "fetching"
          /\ UNCHANGED imgRes
  /\ UNCHANGED <<imgMethod, imgUrl, imgFetch>>
  /\ UNCHANGED nonImageVars

\* fetch() resolves with the upstream response
FetchResolves ==
  /\ imgPc = "fetching"
  /\ \E st \in ImageStatuses, ct \in ImageTypes, b \in Bodies :
       /\ imgFetch' = [imgFetch EXCEPT !.state = "resolved", !.status = st,
                                       !.contentType = ct, !.body = b]
       /\ IF ~Ok(st)
          THEN imgRes' = ImgOnNotOk(imgRes, st) /\ imgPc' = "done"
          ELSE imgPc' = "reading" /\ UNCHANGED imgRes
  /\ UNCHANGED <<imgMethod, imgUrl>>
  /\ UNCHANGED nonImageVars

\* fetch() rejects: the catch block answers
FetchRejects ==
  /\ imgPc = "fetching"
  /\ \E e \in FetchErrors :
       /\ imgFetch' = [imgFetch EXCEPT !.state = "rejected", !.error = e]
       /\ imgRes' = ImgOnCatch(imgRes, e)
  /\ imgPc' = "done"
  /\ UNCHANGED <<imgMethod, imgUrl>>
  /\ UNCHANGED nonImageVars

\* response.arrayBuffer() resolves: the image is sent
BodyRead ==
  /\ imgPc = "reading"
  /\ imgRes' = ImgOnBody(imgRes, imgFetch)
  /\ imgPc' = "done"
  /\ UNCHANGED <<imgMethod, imgUrl, imgFetch>>
  /\ UNCHANGED nonImageVars

\* response.arrayBuffer() rejects: the catch block answers
BodyFails ==
  /\ imgPc = "reading"
  /\ \E e \in FetchErrors :
       /\ imgFetch' = [imgFetch EXCEPT !.state = "bodyFailed", !.error = e]
       /\ imgRes' = ImgOnCatch(imgRes, e)
  /\ imgPc' = "done"
  /\ UNCHANGED <<imgMethod, imgUrl>>
  /\ UNCHANGED nonImageVars

NextImage ==
  \/ ImageHandle
  \/ FetchResolves
  \/ FetchRejects
  \/ BodyRead
  \/ BodyFails

SpecImage == InitImage /\ [][NextImage]_vars

(***************************************************************************)
(* Image cache service: state machine                                      *)
(***************************************************************************)

\* the service once constructed, with nothing saved but a configuration
InitCache ==
  /\ RelayIdle
  /\ ImageIdle
  /\ cache = <<>>
  /\ cacheConfig \in Configs
  /\ stats = Stats0
  /\ loads = [u \in Urls |-> 0]
  /\ storage = Persisted(<<>>, cacheConfig)
  /\ now = 0
  /\ issued = 0
  /\ evicted = <<>>
  /\ lastOp = NoOp
  /\ completed = [u \in Urls |-> NoLoad]
  /\ persistFailed = FALSE
  /\ PreloadIdle
  /\ QualityIdle
  /\ HealthIdle
  /\ SeekIdle

\* getImage(url)
GetImage ==
  /\ issued < MaxRequests
  /\ issued' = issued + 1
  /\ \E url \in Urls :
       LET i == IndexOf(cache, url)
           got == GetImageOn(cache, url, cacheConfig, now)
       IN
         /\ cache' = got.cache
         /\ stats' = Counted(stats, got.hit)
         /\ loads' = IF got.hit THEN loads ELSE [loads EXCEPT ![url] = @ + 1]
         /\ lastOp' = [Op("getImage", url) EXCEPT
                         !.found = (i # 0),
                         !.age = IF i # 0 THEN now - cache[i].timestamp ELSE 0,
                         !.hit = got.hit, !.dataUrl = got.dataUrl,
                         !.statsBefore = stats, !.loadsBefore = loads]
         /\ completed' = IF now - completed[url].at >= cacheConfig.ttl
                         THEN Forget(completed, {url}) ELSE completed
  /\ evicted' = <<>>
  /\ UNCHANGED <<cacheConfig, storage, now, persistFailed>>
  /\ UNCHANGED nonCacheVars

\* a load completes (img.onload): loadAndCacheImage caches the data URL
LoadSucceeds ==
  /\ \E url \in Urls, dataUrl \in DataUrls :
       /\ loads[url] > 0
       /\ loads' = [loads EXCEPT ![url] = @ - 1]
       /\ LET made == CacheImage(cache, url, dataUrl, cacheConfig, now) IN
            /\ cache' = made.cache
            /\ evicted' = made.evicted
            /\ storage' = PersistCache(made.cache, cacheConfig, storage)
            /\ persistFailed' = QuotaExceeded(made.cache)
            /\ completed' = [Forget(completed, Victims(made.evicted)) EXCEPT
                               ![url] = [dataUrl |-> dataUrl, at |-> now]]
       /\ lastOp' = [Op("loaded", url) EXCEPT !.dataUrl = dataUrl]
  /\ UNCHANGED <<cacheConfig, stats, now, issued>>
  /\ UNCHANGED nonCacheVars

\* a load fails (img.onerror): the error is rethrown, nothing is cached
LoadFails ==
  /\ \E url \in Urls :
       /\ loads[url] > 0
       /\ loads' = [loads EXCEPT ![url] = @ - 1]
       /\ lastOp' = Op("loadFailed", url)
  /\ evicted' = <<>>
  /\ UNCHANGED <<cache, cacheConfig, stats, storage, now, issued, completed,
                 persistFailed>>
  /\ UNCHANGED nonCacheVars

\* updateCacheConfig(config), config holding the fields in given
UpdateCacheConfig ==
  /\ \E given \in GivenFields, config \in Configs :
       /\ \A f \in ConfigFields \ given : config[f] = cacheConfig[f]
       /\ LET merged == [f \in ConfigFields |->
                        IF f \in given THEN config[f] ELSE cacheConfig[f]]
              made == IF "maxSize" \in given \/ "maxImages" \in given
                      THEN EnsureCacheSpace(cache, 0, merged, now)
                      ELSE [cache |-> cache, evicted |-> <<>>]
          IN /\ cacheConfig' = merged
             /\ cache' = made.cache
             /\ evicted' = made.evicted
             /\ storage' = PersistCache(made.cache, merged, storage)
             /\ persistFailed' = QuotaExceeded(made.cache)
             /\ completed' = Forget(completed, Victims(made.evicted))
  /\ lastOp' = Op("updateCacheConfig", "")
  /\ UNCHANGED <<stats, loads, now, issued>>
  /\ UNCHANGED nonCacheVars

\* removeFromCache(url)
RemoveFromCache ==
  /\ \E url \in Urls :
       /\ cache' = MapDelete(cache, url)
       /\ storage' = IF IndexOf(cache, url) # 0
                     THEN PersistCache(cache', cacheConfig, storage)
                     ELSE storage
       /\ persistFailed' = IF IndexOf(cache, url) # 0
                           THEN QuotaExceeded(cache') ELSE persistFailed
       /\ lastOp' = Op("removeFromCache", url)
       /\ completed' = Forget(completed, {url})
  /\ evicted' = <<>>
  /\ UNCHANGED <<cacheConfig, stats, loads, now, issued>>
  /\ UNCHANGED nonCacheVars

\* clearCache()
ClearCache ==
  /\ cache' = <<>>
  /\ stats' = Stats0
  /\ storage' = PersistCache(<<>>, cacheConfig, storage)
  /\ persistFailed' = QuotaExceeded(<<>>)
  /\ evicted' = <<>>
  /\ lastOp' = Op("clearCache", "")
  /\ completed' = Forget(completed, Urls)
  /\ UNCHANGED <<cacheConfig, loads, now, issued>>
  /\ UNCHANGED nonCacheVars

\* time passes
Tick ==
  /\ now < MaxTime
  /\ now' = now + 1
  /\ evicted' = <<>>
  /\ lastOp' = NoOp
  /\ UNCHANGED <<cache, cacheConfig, stats, loads, storage, issued, completed,
                 persistFailed>>
  /\ UNCHANGED nonCacheVars

NextCache ==
  \/ GetImage
  \/ LoadSucceeds
  \/ LoadFails
  \/ UpdateCacheConfig
  \/ RemoveFromCache
  \/ ClearCache
  \/ Tick

SpecCache == InitCache /\ [][NextCache]_vars

(***************************************************************************)
(* Image cache service: restarts of the app, localStorage running full     *)
(***************************************************************************)

\* isCached(url)
IsCached ==
  /\ \E url \in Urls :
       LET i == IndexOf(cache, url) IN
         /\ cache' = IF i # 0 /\ now - cache[i].timestamp > cacheConfig.ttl
                      THEN MapDelete(cache, url) ELSE cache
         /\ completed' = IF now - completed[url].at > cacheConfig.ttl
                          THEN Forget(completed, {url}) ELSE completed
         /\ lastOp' = Op("isCached", url)
  /\ evicted' = <<>>
  /\ UNCHANGED <<cacheConfig, stats, loads, storage, now, issued,
                 persistFailed>>
  /\ UNCHANGED nonCacheVars

\* the app stops and starts again: a new service is constructed and
\* initializeCache reads localStorage; the loads in flight die with the page
Restart ==
  /\ LET made == InitializeCache(storage, now) IN
       /\ cacheConfig' = made.config
       /\ cache' = made.cache
       /\ storage' = made.storage
       /\ persistFailed' = (made.failed \/ persistFailed)
  /\ stats' = Stats0
  /\ loads' = [u \in Urls |-> 0]
  /\ evicted' = <<>>
  /\ completed' = [u \in Urls |-> NoLoad]
  /\ lastOp' = [Op("restart", "") EXCEPT
                  !.cacheBefore = cache, !.ttlBefore = cacheConfig.ttl]
  /\ UNCHANGED <<now, issued>>
  /\ UNCHANGED nonCacheVars

NextRestart ==
  \/ NextCache
  \/ IsCached
  \/ Restart

SpecRestart == InitCache /\ [][NextRestart]_vars

(***************************************************************************)
(* Image cache service: preloadImages                                      *)
(***************************************************************************)

\* preloadImages(urls).subscribe(...)
PreloadImages ==
  /\ preState # "running"
  /\ \E urls \in UrlLists :
       LET made == PreloadCalls(urls,
                                [cache |-> cache, stats |-> stats,
                                 outcome |-> <<>>, results |-> <<>>],
                                cacheConfig, now, 1)
           out == ToArray(made.outcome, made.results)
       IN /\ issued + Len(urls) <= MaxRequests
          /\ issued' = issued + Len(urls)
          /\ preUrls' = urls
          /\ cache' = made.cache
          /\ stats' = made.stats
          /\ preOutcome' = made.outcome
          /\ preResults' = made.results
          /\ preState' = out.state
          /\ preEmitted' = out.emitted
          /\ completed' = Forget(completed,
                                 {urls[k] : k \in 1..Len(urls)} \cap
                                 {u \in Urls : now - completed[u].at >= cacheConfig.ttl})
  /\ evicted' = <<>>
  /\ lastOp' = Op("preloadImages", "")
  /\ UNCHANGED <<cacheConfig, loads, storage, now, persistFailed>>
  /\ UNCHANGED nonPreloadVars

\* the load behind one of the inner getImage calls completes: tap caches the
\* data URL, map turns it into { url, success: true }
PreloadLoadSucceeds ==
  /\ preState = "running"
  /\ \E k \in 1..Len(preUrls), dataUrl \in DataUrls :
       /\ preOutcome[k] = "pending"
       /\ LET made == CacheImage(cache, preUrls[k], dataUrl, cacheConfig, now)
              outcome == [preOutcome EXCEPT ![k] = "loaded"]
              results == Append(preResults, [url |-> preUrls[k], success |-> TRUE])
              out == ToArray(outcome, results)
          IN /\ cache' = made.cache
             /\ evicted' = made.evicted
             /\ storage' = PersistCache(made.cache, cacheConfig, storage)
             /\ persistFailed' = QuotaExceeded(made.cache)
             /\ completed' = [Forget(completed, Victims(made.evicted)) EXCEPT
                                ![preUrls[k]] = [dataUrl |-> dataUrl, at |-> now]]
             /\ lastOp' = [Op("loaded", preUrls[k]) EXCEPT !.dataUrl = dataUrl]
             /\ preOutcome' = outcome
             /\ preResults' = results
             /\ preState' = out.state
             /\ preEmitted' = out.emitted
  /\ UNCHANGED <<cacheConfig, stats, loads, now, issued, preUrls>>
  /\ UNCHANGED nonPreloadVars

\* the load behind one of the inner getImage calls fails: loadAndCacheImage
\* rethrows, the inner catchError answers
PreloadLoadFails ==
  /\ preState = "running"
  /\ \E k \in 1..Len(preUrls) :
       /\ preOutcome[k] = "pending"
       /\ LET caught == CatchError(preUrls[k])
              outcome == [preOutcome EXCEPT ![k] = "failed"]
              results == Append(preResults, caught.result)
              out == ToArray(outcome, results)
          IN /\ lastOp' = Op("loadFailed", preUrls[k])
             /\ preOutcome' = outcome
             /\ IF caught.error
                THEN /\ preState' = "error"
                     /\ UNCHANGED <<preResults, preEmitted>>
                ELSE /\ preResults' = results
                     /\ preState' = out.state
                     /\ preEmitted' = out.emitted
  /\ evicted' = <<>>
  /\ UNCHANGED <<cache, cacheConfig, stats, loads, storage, now, issued, completed,
                 persistFailed, preUrls>>
  /\ UNCHANGED nonPreloadVars

NextPreload ==
  \/ PreloadImages
  \/ PreloadLoadSucceeds
  \/ PreloadLoadFails
  \/ Tick

SpecPreload == InitCache /\ [][NextPreload]_vars

(***************************************************************************)
(* Adaptive quality service: state machine                                 *)
(***************************************************************************)

InitQuality ==
  /\ RelayIdle
  /\ ImageIdle
  /\ CacheIdle
  /\ HealthIdle
  /\ SeekIdle
  /\ QualityIdle

\* MANIFEST_PARSED: the Hls instance has its levels
LevelsLoaded ==
  /\ hls.levels = <<>>
  /\ \E levels \in LevelLists : hls' = [hls EXCEPT !.levels = levels]
  /\ lastQ' = NoQOp
  /\ UNCHANGED <<qualityState, monitoringInterval, timers, inits>>
  /\ UNCHANGED nonQualityVars

\* initializeAdaptiveQuality(streamUrl, hls, isVod); the stream being the
\* same, isVod is what it was in the calls whose timers are running
InitializeAdaptiveQuality ==
  /\ inits < MaxInits
  /\ inits' = inits + 1
  /\ \E isVod \in BOOLEAN :
       /\ \A t \in timers : t.isVod = isVod
       /\ timers' = timers \cup
                      {[id |-> inits + 1, isVod |-> isVod, due |-> BandwidthTestInterval]}
  /\ lastQ' = NoQOp
  /\ qualityState' = QualityState0
  /\ hls' = IF StartWithLowQuality THEN StartWithLowerQuality(hls) ELSE hls
  /\ monitoringInterval' = inits + 1
  /\ UNCHANGED nonQualityVars

\* an interval subscription fires: assessQualityAndAdjust
MonitoringStep ==
  /\ \E t \in timers, health \in Healths :
       /\ t.due = 0
       /\ timers' = (timers \ {t}) \cup {[t EXCEPT !.due = BandwidthTestInterval]}
       /\ LET made == AssessQualityAndAdjust(hls, qualityState, t.isVod, health) IN
            /\ hls' = made.hls
            /\ qualityState' = made.state
       /\ lastQ' = [NoQOp EXCEPT
                      !.name = "monitor",
                      !.initialised = (qualityState # NoQualityState),
                      !.isVod = t.isVod, !.health = health,
                      !.levelBefore = hls.currentLevel,
                      !.sinceBefore = qualityState.sinceChange]
  /\ UNCHANGED <<monitoringInterval, inits>>
  /\ UNCHANGED nonQualityVars

\* time passes, no subscription being due
ClockAdvances ==
  /\ \A t \in timers : t.due > 0
  /\ timers' = {[t EXCEPT !.due = @ - ClockStep] : t \in timers}
  /\ qualityState' =
       IF qualityState = NoQualityState THEN qualityState
       ELSE [qualityState EXCEPT
               !.sinceChange = IF @ + ClockStep > MaxElapsed THEN MaxElapsed
                               ELSE @ + ClockStep]
  /\ lastQ' = NoQOp
  /\ UNCHANGED <<hls, monitoringInterval, inits>>
  /\ UNCHANGED nonQualityVars

\* the Hls instance switches level by itself: to the manual level set for the
\* next fragment, or, no manual level being set, to any level; the
\* LEVEL_SWITCHING listener records it
HlsSwitches ==
  /\ hls.levels # <<>>
  /\ \E level \in 0..(Len(hls.levels) - 1) :
       /\ level # hls.currentLevel
       /\ hls.manualLevel \in {-1, level}
       /\ hls' = [hls EXCEPT !.currentLevel = level]
       /\ qualityState' = IF qualityState = NoQualityState THEN qualityState
                          ELSE [qualityState EXCEPT !.currentQuality = level]
  /\ lastQ' = NoQOp
  /\ UNCHANGED <<monitoringInterval, timers, inits>>
  /\ UNCHANGED nonQualityVars

\* cleanup(streamUrl)
Cleanup ==
  /\ timers' = {t \in timers : t.id # monitoringInterval}
  /\ monitoringInterval' = 0
  /\ qualityState' = NoQualityState
  /\ lastQ' = NoQOp
  /\ UNCHANGED <<hls, inits>>
  /\ UNCHANGED nonQualityVars

NextQuality ==
  \/ LevelsLoaded
  \/ InitializeAdaptiveQuality
  \/ MonitoringStep
  \/ ClockAdvances
  \/ HlsSwitches
  \/ Cleanup

SpecQuality == InitQuality /\ [][NextQuality]_vars

\* the timers fire when due and time does not stop
SpecQualityFair ==
  SpecQuality /\ WF_vars(MonitoringStep) /\ WF_vars(ClockAdvances)

(***************************************************************************)
(* Adaptive quality service: the buffer health score, state machine        *)
(***************************************************************************)

\* a stream just initialised (bufferHealth: 1.0), its media in any state
InitHealth ==
  /\ RelayIdle
  /\ ImageIdle
  /\ CacheIdle
  /\ SeekIdle
  /\ media \in Medias
  /\ bufferHealth = One

\* the video element is attached or detached, plays, buffers, seeks
MediaChanges ==
  /\ media' \in Medias \ {media}
  /\ UNCHANGED bufferHealth
  /\ UNCHANGED nonHealthVars

\* assessQualityAndAdjust: qualityState.bufferHealth = calculateBufferHealth(hls)
MeasureBufferHealth ==
  /\ bufferHealth' = CalculateBufferHealth(media)
  /\ UNCHANGED media
  /\ UNCHANGED nonHealthVars

\* Hls.Events.BUFFER_EOS
BufferEos ==
  /\ bufferHealth' = MathMax(Zero, Minus(bufferHealth, Tenth))
  /\ UNCHANGED media
  /\ UNCHANGED nonHealthVars

NextHealth == MediaChanges \/ MeasureBufferHealth \/ BufferEos

SpecHealth == InitHealth /\ [][NextHealth]_vars

(***************************************************************************)
(* Seamless seeking service: state machine                                 *)
(***************************************************************************)

InitSeek ==
  /\ RelayIdle
  /\ ImageIdle
  /\ CacheIdle
  /\ HealthIdle
  /\ SeekIdle

\* the three parts of the state that a seek's callbacks change
SeekState == [seek |-> seek, observer |-> observer, seekResults |-> seekResults]

Becomes(st) ==
  /\ seek' = st.seek
  /\ observer' = st.observer
  /\ seekResults' = st.seekResults

\* SeamlessSeekingService.registerPlayer / AdvancedBufferManagerService.registerPlayer
RegisterPlayer ==
  /\ \E service \in {"seeking", "buffer"} :
       /\ ~players[service]
       /\ players' = [players EXCEPT ![service] = TRUE]
  /\ UNCHANGED <<bufferState, seek, observer, seekResults>>
  /\ UNCHANGED nonSeekVars

\* SeamlessSeekingService.unregisterPlayer
UnregisterPlayer ==
  /\ players.seeking
  /\ players' = [players EXCEPT !.seeking = FALSE]
  /\ seek' = IF seek.timeoutId
             THEN [seek EXCEPT !.timeout = FALSE, !.timeoutId = FALSE]
             ELSE seek
  /\ UNCHANGED <<bufferState, observer, seekResults>>
  /\ UNCHANGED nonSeekVars

\* AdvancedBufferManagerService.unregisterPlayer
UnregisterBuffer ==
  /\ players.buffer
  /\ players' = [players EXCEPT !.buffer = FALSE]
  /\ UNCHANGED <<bufferState, seek, observer, seekResults>>
  /\ UNCHANGED nonSeekVars

\* executeSeamlessSeek(url, targetTime, seekType), subscribed
ExecuteSeamlessSeek ==
  /\ seek.type = "none"
  /\ \E seekType \in SeekTypes :
       LET st == [SeekState EXCEPT !.seek.type = seekType,
                                   !.seek.found = players.seeking]
       IN IF ~players.seeking
          THEN Becomes([st EXCEPT !.observer = NextAndComplete(@)])
          ELSE IF seekType = "instant" THEN Becomes(ExecuteInstantSeek(players, st))
          ELSE IF seekType = "smooth" THEN Becomes(ExecuteSmoothSeek(players, st))
          ELSE Becomes(ExecutePreciseSeek(players, st))
  /\ UNCHANGED <<players, bufferState>>
  /\ UNCHANGED nonSeekVars

\* executePreciseSeek: checkBufferInterval fires and subscribes the buffer
\* state once more; the subject hands the new subscriber its current value
IntervalTick ==
  /\ seek.interval
  /\ LET st == [SeekState EXCEPT
                  !.seek.subscriptions =
                     IF @ < MaxSubscriptions THEN @ + 1 ELSE @]
     IN Becomes(OnBufferState(st, bufferState, 1))
  /\ UNCHANGED <<players, bufferState>>
  /\ UNCHANGED nonSeekVars

\* updateBufferState: bufferState.next(newState) reaches every subscription
UpdateBufferState ==
  /\ players.buffer
  /\ \E health \in BufferHealths :
       /\ bufferState' = health
       /\ Becomes(OnBufferState(SeekState, health, seek.subscriptions))
  /\ UNCHANGED players
  /\ UNCHANGED nonSeekVars

\* executePreciseSeek: the 10 s timeout
TimeoutFires ==
  /\ seek.timeout
  /\ Becomes(ExecuteSmoothSeek(players,
               [SeekState EXCEPT !.seek.timeout = FALSE, !.seek.interval = FALSE]))
  /\ UNCHANGED <<players, bufferState>>
  /\ UNCHANGED nonSeekVars

\* executeSmoothSeek: prepareSeekBuffer emits true, and the seek is done
PrepareCompletes ==
  /\ seek.preparing
  /\ Becomes(EmitResult([SeekState EXCEPT !.seek.preparing = FALSE], 1))
  /\ UNCHANGED <<players, bufferState>>
  /\ UNCHANGED nonSeekVars

NextSeek ==
  \/ RegisterPlayer
  \/ UnregisterPlayer
  \/ UnregisterBuffer
  \/ ExecuteSeamlessSeek
  \/ IntervalTick
  \/ UpdateBufferState
  \/ TimeoutFires
  \/ PrepareCompletes

SpecSeek == InitSeek /\ [][NextSeek]_vars

\* the timers of a seek fire
SpecSeekFair ==
  SpecSeek /\ WF_vars(IntervalTick) /\ WF_vars(TimeoutFires)
           /\ WF_vars(PrepareCompletes)

(***************************************************************************)
(* Stream relay: properties                                                *)
(***************************************************************************)

HasStreamExtension(url) == \E e \in StreamExtensions : Includes(url, e)

\* the handler has run on the inbound request
Handled == pc \notin {"idle", "start"}

\* the response callback has run on an upstream answer with this property
Answered(P(_)) == upstream.received /\ P(upstream)

IsStreamStatus(up) == up.statusCode \in {200, 206}
IsOtherStatus(up) == ~IsStreamStatus(up) /\ ~IsRedirect(up)

\* C1: a request whose streamUrl is missing or contains none of the stream
\* extensions is answered 400 with a JSON error, and no outbound request is
\* opened for it.
C1_InvalidUrlRejected ==
  (Handled /\ (streamUrl = <<>> \/ ~HasStreamExtension(streamUrl)))
    => /\ res.statusCode = 400
       /\ res.kind = "json"
       /\ request.count = 0

\* C2: on an upstream 200 or 206 the relay's response carries the upstream's
\* status, Content-Length and Content-Range; a HEAD is ended with no body, and
\* a GET that has ended delivered the upstream body unmodified.
C2_StreamForwarded ==
  Answered(IsStreamStatus)
    => /\ res.kind = "stream"
       /\ res.statusCode = upstream.statusCode
       /\ res.contentLength = upstream.contentLength
       /\ res.contentRange = upstream.contentRange
       /\ isHead => (res.ended /\ res.body = <<>>)
       /\ (~isHead /\ res.ended) => res.body = upstream.sent

\* decodeURIComponent on one escape
PercentUnescape(a, b) ==
  CASE <<a, b>> = <<"3", "A">> -> ":"
    [] <<a, b>> = <<"2", "F">> -> "/"
    [] <<a, b>> = <<"3", "F">> -> "?"
    [] <<a, b>> = <<"3", "D">> -> "="
    [] <<a, b>> = <<"2", "6">> -> "&"
    [] <<a, b>> = <<"2", "5">> -> "%"
    [] OTHER -> "?"

RECURSIVE PercentDecode(_)
PercentDecode(s) ==
  IF s = <<>> THEN <<>>
  ELSE IF Head(s) = "%" /\ Len(s) >= 3
       THEN <<PercentUnescape(s[2], s[3])>> \o PercentDecode(SubSeq(s, 4, Len(s)))
       ELSE <<Head(s)>> \o PercentDecode(Tail(s))

RECURSIVE UpToSeparator(_)
UpToSeparator(s) ==
  IF s = <<>> \/ Head(s) = "&" THEN <<>> ELSE <<Head(s)>> \o UpToSeparator(Tail(s))

\* what a server reads as req.query.streamUrl from a request target
QueryStreamUrl(target) ==
  PercentDecode(UpToSeparator(SubSeq(target, Len(RedirectPrefix) + 1, Len(target))))

\* C3: on an upstream 3xx with a Location header the relay answers with a
\* redirect to /api/stream-proxy whose streamUrl parameter reads back as that
\* Location, and the inbound request has opened exactly one outbound request:
\* nothing is piped and the chain is not followed.
C3_RedirectNotFollowed ==
  Answered(IsRedirect)
    => /\ res.kind = "redirect"
       /\ res.statusCode \in 300..399
       /\ SubSeq(res.location, 1, Len(RedirectPrefix)) = RedirectPrefix
       /\ QueryStreamUrl(res.location) = upstream.location
       /\ request.count = 1
       /\ ~res.piping /\ res.body = <<>>

C3_Witness ==
  /\ Answered(IsRedirect) /\ upstream.location = LocAbs
  /\ res.kind = "redirect"
  /\ \E i \in 1..Len(log) : log[i].ev = "timeout"

\* C4: on any upstream status that is neither 200, 206 nor a 3xx carrying a
\* Location the relay answers with that status and the JSON error
\* "Stream server responded with status <code>", and pipes no upstream body.
C4_OtherStatusIsJsonError ==
  Answered(IsOtherStatus)
    => /\ res.kind = "json"
       /\ res.statusCode = upstream.statusCode
       /\ res.message = [text |-> "Stream server responded with status ",
                         code |-> upstream.statusCode, reason |-> ""]
       /\ ~res.piping /\ res.body = <<>>

C4_Witness ==
  /\ Answered(IsOtherStatus) /\ upstream.statusCode = 302
  /\ upstream.location = <<>>
  /\ res.kind = "json" /\ res.statusCode = 302

\* the handler of event ev ran while no response had been started
RanUnsent(ev) == \E i \in 1..Len(log) : log[i].ev = ev /\ ~log[i].sent

\* C5: a timeout of the outbound request before any response has been started
\* is answered 408 with the timeout message, the outbound request is
\* destroyed, and the response is written once: the error event that the
\* destroy causes writes nothing.
C5_TimeoutAnswered408Once ==
  RanUnsent("timeout")
    => /\ res.statusCode = 408
       /\ res.kind = "json"
       /\ res.message.text = "Stream request timeout"
       /\ request.destroyed
       /\ res.writes = 1

C5_Witness ==
  /\ \E i, j \in 1..Len(log) :
       /\ i < j
       /\ log[i].ev = "timeout" /\ ~log[i].sent
       /\ log[j].ev = "error" /\ log[j].arg = "socket hang up"
  /\ res.statusCode = 408

\* C6: a connection error of the outbound request before any response has
\* been started is answered 500 with the JSON error
\* "Failed to connect to stream: <reason>".
C6_ConnectionErrorAnswered500 ==
  \A i \in 1..Len(log) :
    (log[i].ev = "error" /\ ~log[i].sent)
      => /\ res.statusCode = 500
         /\ res.kind = "json"
         /\ res.message = [text |-> "Failed to connect to stream: ",
                           code |-> 0, reason |-> log[i].arg]

C6_Witness ==
  /\ RanUnsent("error")
  /\ res.statusCode = 500
  /\ res.message.reason = "connect ECONNREFUSED"

\* the response callback was the last handler to run
JustAnswered == log # <<>> /\ log[Len(log)].ev = "response"

\* C7: on an upstream 200 or 206 the relay's Content-Type is
\* application/octet-stream when the target URL contains .mkv, and otherwise
\* the upstream's Content-Type (application/octet-stream when it sent none).
C7_MkvContentType ==
  (Answered(IsStreamStatus) /\ JustAnswered)
    => res.contentType =
         IF Includes(streamUrl, <<".","m","k","v">>)
         THEN "application/octet-stream"
         ELSE OrElse(upstream.contentType, "application/octet-stream")

\* C22: for every ordering of the upstream response, upstream error and
\* timeout events the relay starts at most one response: status and headers
\* are written once, and no status or JSON body is written after a response
\* has begun (a handler that finds res.headersSent set leaves the response
\* as it was: a stream that has sent body never turns into a JSON error or
\* a redirect).
C22_AtMostOneResponse ==
  /\ res.writes <= 1
  /\ res.headersSent <=> res.writes = 1
  /\ res.body # <<>> => res.kind = "stream"

\* a stream had begun when the timeout and then the aborted upstream's error
\* were handled
C22_Witness ==
  /\ res.body # <<>>
  /\ \E i, j \in 1..Len(log) :
       /\ i < j
       /\ log[i].ev = "timeout" /\ log[i].sent
       /\ log[j].ev = "responseError" /\ log[j].sent

\* C23: every request the relay accepts eventually has its response ended,
\* under every upstream outcome, an upstream error or timeout after the
\* headers were sent and the body pipe had started included.
C23_ResponseEnded == (pc = "waiting") ~> res.ended

(***************************************************************************)
(* Image proxy: properties                                                 *)
(***************************************************************************)

\* C8: a non-2xx upstream status is answered with a JSON error carrying that
\* status and no image body; a missing url is answered 400 and a rejected
\* fetch 500.
C8_ImageErrors ==
  /\ (imgFetch.state = "resolved" /\ ~Ok(imgFetch.status))
       => /\ imgRes.kind = "json"
          /\ imgRes.statusCode = imgFetch.status
          /\ imgRes.body = <<>>
  /\ (imgPc = "done" /\ imgMethod = "GET" /\ imgUrl = <<>>)
       => (imgRes.kind = "json" /\ imgRes.statusCode = 400)
  /\ imgFetch.state = "rejected"
       => (imgRes.kind = "json" /\ imgRes.statusCode = 500 /\ imgRes.body = <<>>)
  /\ imgRes.writes <= 1

C8_Witness ==
  /\ imgFetch.state = "resolved" /\ imgFetch.status = 404
  /\ imgFetch.body # <<>>
  /\ imgRes.statusCode = 404

(***************************************************************************)
(* Image cache service: properties                                         *)
(***************************************************************************)

\* C9: the cache holds at most maxImages entries and the sum of their sizes
\* is at most maxSize.
C9_CacheWithinLimits ==
  /\ Len(cache) <= cacheConfig.maxImages
  /\ GetCurrentCacheSize(cache) <= cacheConfig.maxSize

\* C10: every eviction removes the least recently used entry: no entry of the
\* cache it was chosen from, with the same access count, was accessed earlier
\* than the evicted one.
C10_EvictsLeastRecentlyUsed ==
  \A k \in 1..Len(evicted) :
    \A j \in 1..Len(evicted[k].before) :
      evicted[k].before[j].accessCount = evicted[k].victim.accessCount
        => evicted[k].before[j].lastAccessed >= evicted[k].victim.lastAccessed

Cached(c, u) == IndexOf(c, u) # 0
Entry(c, u) == c[IndexOf(c, u)]

\* C11: getImage never returns a cached data URL whose age (now minus its
\* timestamp) has reached ttl: such an entry is deleted, the request is
\* counted as a miss and the image is loaded again.
C11_ExpiredNeverReturned ==
  lastOp.name = "getImage" =>
    /\ lastOp.hit => lastOp.found /\ lastOp.age < cacheConfig.ttl
    /\ lastOp.found /\ lastOp.age >= cacheConfig.ttl =>
         /\ ~lastOp.hit
         /\ lastOp.dataUrl = <<>>
         /\ ~Cached(cache, lastOp.url)
         /\ stats.missCount = lastOp.statsBefore.missCount + 1
         /\ stats.hitCount = lastOp.statsBefore.hitCount
         /\ loads[lastOp.url] = lastOp.loadsBefore[lastOp.url] + 1

\* a getImage has found an entry whose age had reached ttl
C11_Witness ==
  lastOp.name = "getImage" /\ lastOp.found /\ lastOp.age >= cacheConfig.ttl

\* C12: once getImage(url) has completed successfully, every later
\* getImage(url) issued before ttl elapses, with no clearCache,
\* removeFromCache or eviction of that entry in between, returns the stored
\* data URL as a hit without starting a fetch.
C12_LaterGetIsHit ==
  /\ lastOp.name = "loaded" =>
       /\ completed[lastOp.url] = [dataUrl |-> lastOp.dataUrl, at |-> now]
       /\ Cached(cache, lastOp.url)
       /\ Entry(cache, lastOp.url).dataUrl = lastOp.dataUrl
  /\ \A u \in Urls :
       /\ lastOp.name = "getImage" /\ lastOp.url = u
       /\ completed[u] # NoLoad
       /\ now - completed[u].at < cacheConfig.ttl
       => /\ lastOp.hit
          /\ lastOp.dataUrl = completed[u].dataUrl
          /\ loads = lastOp.loadsBefore
          /\ stats.hitCount = lastOp.statsBefore.hitCount + 1

\* a getImage after the load for the same url completed, in time
C12_Witness ==
  /\ lastOp.name = "getImage"
  /\ completed[lastOp.url] # NoLoad
  /\ now - completed[lastOp.url].at < cacheConfig.ttl
  /\ now > completed[lastOp.url].at

\* C13: each image is downloaded only once: a getImage(url) issued while a
\* valid cache entry or an in-flight load for url exists starts no fetch, so
\* two getImage(url) calls issued before the first load completes cause a
\* single fetch.
C13_SingleFetch ==
  \A u \in Urls :
    /\ lastOp.name = "getImage" /\ lastOp.url = u
    /\ \/ lastOp.loadsBefore[u] > 0
       \/ lastOp.found /\ lastOp.age < cacheConfig.ttl
    => loads[u] = lastOp.loadsBefore[u]

\* C14: the cache survives a restart: every entry that is in the in-memory
\* cache and unexpired when the app stops is present with the same data URL
\* after the next initializeCache, and no entry that was removed from memory
\* reappears after the restart.
C14_SurvivesRestart ==
  lastOp.name = "restart" =>
    /\ \A u \in Urls :
         /\ Cached(lastOp.cacheBefore, u)
         /\ now - Entry(lastOp.cacheBefore, u).timestamp < lastOp.ttlBefore
         => /\ Cached(cache, u)
            /\ Entry(cache, u).dataUrl = Entry(lastOp.cacheBefore, u).dataUrl
    /\ \A u \in Urls : Cached(cache, u) => Cached(lastOp.cacheBefore, u)

\* the results collected for url with the given success
ResultsFor(results, url, success) ==
  {k \in 1..Len(results) : results[k] = [url |-> url, success |-> success]}

\* the positions of url in the input whose getImage succeeded, or failed
PositionsFor(url, success) ==
  {k \in 1..Len(preUrls) :
     preUrls[k] = url /\ (preOutcome[k] \in {"hit", "loaded"}) = success}

\* C15: preloadImages(urls) emits exactly one array holding exactly one
\* {url, success} result per input URL, with success true exactly when that
\* URL's load succeeded, and completes without error even when some loads
\* fail.
C15_PreloadResults ==
  /\ preState # "error"
  /\ preState = "running" => preEmitted = <<>>
  /\ (preState # "idle" /\ \A k \in 1..Len(preOutcome) : preOutcome[k] # "pending")
       => preState = "complete"
  /\ preState = "complete" =>
       /\ Len(preEmitted) = 1
       /\ Len(preEmitted[1]) = Len(preUrls)
       /\ \A u \in Urls, success \in BOOLEAN :
            Cardinality(ResultsFor(preEmitted[1], u, success))
              = Cardinality(PositionsFor(u, success))

\* a preload has completed with a failed load, a successful load and a url
\* given twice
C15_Witness ==
  /\ preState = "complete"
  /\ \E j, k \in 1..Len(preUrls) :
       /\ j # k /\ preUrls[j] = preUrls[k]
       /\ preOutcome[j] = "failed" /\ preOutcome[k] = "loaded"

(***************************************************************************)
(* Adaptive quality service: properties                                    *)
(***************************************************************************)

\* the level of the highest bitrate is playing
AtHighest ==
  /\ hls.currentLevel >= 0
  /\ \A i \in 0..(Len(hls.levels) - 1) :
       Bitrate(hls.levels, i) <= Bitrate(hls.levels, hls.currentLevel)

\* the last step was a monitoring step that found a level playing
Monitored == lastQ.name = "monitor" /\ lastQ.levelBefore >= 0

\* a level of lower quality than the one the monitoring step found
LowerExists ==
  \E i \in 0..(lastQ.levelBefore - 1) :
    Bitrate(hls.levels, i) < Bitrate(hls.levels, lastQ.levelBefore)

Lowered ==
  /\ hls.currentLevel < lastQ.levelBefore
  /\ Bitrate(hls.levels, hls.currentLevel) < Bitrate(hls.levels, lastQ.levelBefore)

\* C16: on every monitoring step where the stream's buffer health is below
\* 30% and a lower quality level exists, the current quality level is
\* lowered. The step is one that finds the stream's quality state: without
\* it assessQualityAndAdjust returns before it measures the buffer health.
C16_LowHealthLowers ==
  (Monitored /\ lastQ.initialised /\ lastQ.health < QualityDowngradeThreshold
     /\ LowerExists) => Lowered

\* a monitoring step has measured a low buffer health and gone down to the
\* next lower bitrate, past a level of the same bitrate
C16_Witness ==
  /\ Monitored /\ lastQ.initialised /\ lastQ.health < QualityDowngradeThreshold
  /\ LowerExists /\ Lowered
  /\ hls.currentLevel < lastQ.levelBefore - 1

\* a level of higher quality than the one the monitoring step found
HigherExists ==
  \E i \in (lastQ.levelBefore + 1)..(Len(hls.levels) - 1) :
    Bitrate(hls.levels, i) > Bitrate(hls.levels, lastQ.levelBefore)

Raised ==
  /\ hls.currentLevel > lastQ.levelBefore
  /\ Bitrate(hls.levels, hls.currentLevel) > Bitrate(hls.levels, lastQ.levelBefore)

\* C17: for a stream with adaptive quality initialised whose current level
\* is not the highest, if buffer health is above 70% and 5 seconds have
\* passed since the last quality change, the next monitoring step raises the
\* quality level.
C17_GoodHealthRaises ==
  (Monitored /\ lastQ.initialised /\ HigherExists
     /\ lastQ.health > QualitySwitchThreshold
     /\ lastQ.sinceBefore >= QualityUpgradeDelay) => Raised

\* the monitoring step has raised the level
Upgraded == Monitored /\ hls.currentLevel > lastQ.levelBefore

Playing == qualityState # NoQualityState /\ hls.currentLevel >= 0

\* a monitoring step has measured a buffer health that is not above 70%
HealthNotGood == lastQ.name = "monitor" /\ lastQ.health <= QualitySwitchThreshold

\* C19: if buffer health stays above 70%, repeated monitoring steps
\* eventually bring the current level to the highest-bitrate level, from any
\* level the stream plays at: from every state with a level playing, the
\* highest bitrate is reached, unless a step measures a buffer health that is
\* not above 70% or the stream is cleaned up first.
C19_ReachesHighest ==
  Playing ~> (AtHighest \/ HealthNotGood \/ qualityState = NoQualityState)

\* a VOD stream has reached the highest bitrate by an upgrade from a level
\* that was not the lowest
C19_Witness ==
  /\ Upgraded /\ lastQ.initialised /\ lastQ.isVod /\ lastQ.levelBefore > 0
  /\ lastQ.health > QualitySwitchThreshold /\ AtHighest

\* C20: after cleanup(streamUrl) no quality state and no running monitoring
\* timer exist for the stream, whatever initializeAdaptiveQuality and cleanup
\* calls came before: the stream has no quality state at the start and after
\* a cleanup only, and then no timer runs.
C20_CleanedUp ==
  qualityState = NoQualityState => (timers = {} /\ monitoringInterval = 0)

(***************************************************************************)
(* Adaptive quality service: the buffer health score, properties           *)
(***************************************************************************)

\* C21: the buffer-health score computed by the adaptive quality service is
\* always between 0 and 1 inclusive, for every combination of current
\* playback time and buffered ranges, a playback position outside the
\* buffered span included.
C21_HealthInUnitInterval ==
  ~LessThan(bufferHealth, Zero) /\ ~LessThan(One, bufferHealth)


(***************************************************************************)
(* Seamless seeking service: properties                                    *)
(***************************************************************************)

\* C24: each call of executeSeamlessSeek produces exactly one SeekResult,
\* whatever the seek type and the timing of buffer-state updates and timers:
\* never more than one emission to the caller nor more than one entry appended
\* to the seek-results history, and one of each once the call has completed.
C24_ExactlyOneResult ==
  seek.type # "none" =>
    /\ observer.next <= 1
    /\ seekResults <= 1
    /\ observer.complete => observer.next = 1 /\ seekResults = 1

\* C25: every executeSeamlessSeek call on a registered player eventually
\* emits a SeekResult and completes, even when the buffer never becomes
\* healthy or the player is unregistered while the seek is still pending.
C25_SeekCompletes ==
  seek.found ~> (observer.complete /\ observer.next = 1)

====
